---------------------------- MODULE Spec2Model ----------------------------
(***************************************************************************)
(* A model of the TypeBox builder generator: scripts/helpers/typebox.js    *)
(* (classes Method and ProgramGenerator), the helpers it uses from         *)
(* scripts/helpers/utils.js, and the generate:types command action of      *)
(* scripts/generate/types.js.                                              *)
(*                                                                         *)
(* JavaScript strings are TLA+ strings, taken apart with Len and SubSeq.   *)
(* JavaScript arrays are sequences.  An optional property (a node's name)  *)
(* is a sequence of length 0 (undefined) or 1.                             *)
(***************************************************************************)
EXTENDS Integers, Sequences, FiniteSets, TLC

VARIABLES
  disk,           \* what the file system holds at each configured root path
  sources,        \* ProgramGenerator.sources
  builders,       \* ProgramGenerator.builders
  internalTypes,  \* ProgramGenerator.internalTypes
  methods,        \* ProgramGenerator.methods
  ctor,           \* how far `new ProgramGenerator()` has run
  action,         \* the promise of the generate:types action (handle)
  wtf,            \* the promise of writeToFile and the await it is parked at
  content,        \* writeToFile's rendered template (the list it was fed)
  outFile,        \* the file at the output path
  fault,          \* the collaborator that failed inside writeToFile, if any
  patchIn,        \* the last argument handed to patchType
  patchOut        \* and what patchType returned for it

vars == <<disk, sources, builders, internalTypes, methods, ctor, action, wtf,
          content, outFile, fault, patchIn, patchOut>>

(***************************************************************************)
(* Bounds of the model.                                                    *)
(***************************************************************************)
MaxMembers == 2   \* members of one class declaration
MaxWords == 2     \* text fragments of one declaration file
MaxPieces == 2    \* fragments of one string handed to patchType
MaxNodes == 2     \* top-level statements of one declaration file

SeqsUpTo(S, n) == UNION {[1..k -> S] : k \in 0..n}

(***************************************************************************)
(* String.prototype and Array.prototype, as the code uses them.            *)
(***************************************************************************)
CharAt(s, i) == SubSeq(s, i, i)

Chars(s) == {CharAt(s, i) : i \in 1..Len(s)}

\* \w of a JavaScript regular expression
WordChars == Chars("ABCDEFGHIJKLMNOPQRSTUVWXYZabcdefghijklmnopqrstuvwxyz0123456789_")

\* what String.prototype.trim strips (the members of it the model's texts use)
WhiteSpace == {" ", "\n", "\t"}

\* whether t occurs in s at position p
StartsWithAt(s, p, t) ==
  /\ p + Len(t) - 1 <= Len(s)
  /\ SubSeq(s, p, p + Len(t) - 1) = t

includes(arr, v) == \E i \in DOMAIN arr : arr[i] = v

RECURSIVE flat(_)
flat(arrs) == IF arrs = <<>> THEN <<>> ELSE Head(arrs) \o flat(Tail(arrs))

RECURSIVE join(_, _)
join(arr, sep) ==
  IF arr = <<>> THEN ""
  ELSE IF Len(arr) = 1 THEN arr[1]
  ELSE arr[1] \o sep \o join(Tail(arr), sep)

RECURSIVE trimStart(_)
trimStart(s) ==
  IF Len(s) > 0 /\ CharAt(s, 1) \in WhiteSpace
  THEN trimStart(SubSeq(s, 2, Len(s)))
  ELSE s

RECURSIVE trimEnd(_)
trimEnd(s) ==
  IF Len(s) > 0 /\ CharAt(s, Len(s)) \in WhiteSpace
  THEN trimEnd(SubSeq(s, 1, Len(s) - 1))
  ELSE s

trim(value) == trimEnd(trimStart(value))

\* String.prototype.replaceAll with a string pattern: every occurrence, left
\* to right, without overlap, wherever in the string it stands
RECURSIVE replaceAllFrom(_, _, _, _)
replaceAllFrom(s, p, item, rep) ==
  IF p > Len(s) THEN ""
  ELSE IF StartsWithAt(s, p, item)
       THEN rep \o replaceAllFrom(s, p + Len(item), item, rep)
       ELSE CharAt(s, p) \o replaceAllFrom(s, p + 1, item, rep)

replaceAll(s, item, rep) == replaceAllFrom(s, 1, item, rep)

addPrefix(prefix, separator, value) == prefix \o separator \o value

\* getUnique without the Set: every element kept
getUniqueKeepsDuplicates(arr) == arr

\* Array.from(new Set(arr)): the first occurrence of each element, in order
RECURSIVE getUnique(_)
getUnique(arr) ==
  IF arr = <<>> THEN <<>>
  ELSE LET init == getUnique(SubSeq(arr, 1, Len(arr) - 1))
           last == arr[Len(arr)]
       IN  IF includes(init, last) THEN init ELSE Append(init, last)

hasProperty(opt) == opt # <<>>


(***************************************************************************)
(* utils.compareAlphabetically: String.prototype.localeCompare on          *)
(* identifiers.  The collation compares letters without regard to case     *)
(* first (underscore, then digits, then letters; a shorter string before   *)
(* its extensions) and breaks a tie by case, lower case first.             *)
(***************************************************************************)
LowerCase == "abcdefghijklmnopqrstuvwxyz"
UpperCase == "ABCDEFGHIJKLMNOPQRSTUVWXYZ"
Digits == "0123456789"

IndexIn(s, c) == CHOOSE i \in 1..Len(s) : CharAt(s, i) = c

\* the collation key of character c at a comparison level
CollationKey(c, level) ==
  IF level = 1
  THEN IF c \in Chars(LowerCase) THEN 11 + IndexIn(LowerCase, c)
       ELSE IF c \in Chars(UpperCase) THEN 11 + IndexIn(UpperCase, c)
       ELSE IF c \in Chars(Digits) THEN IndexIn(Digits, c)
       ELSE 0
  ELSE IF c \in Chars(UpperCase) THEN 1 ELSE 0

RECURSIVE compareLevel(_, _, _, _)
compareLevel(a, b, i, level) ==
  IF i > Len(a) /\ i > Len(b) THEN 0
  ELSE IF i > Len(a) THEN -1
  ELSE IF i > Len(b) THEN 1
  ELSE LET ka == CollationKey(CharAt(a, i), level)
           kb == CollationKey(CharAt(b, i), level)
       IN  IF ka < kb THEN -1
           ELSE IF ka > kb THEN 1
           ELSE compareLevel(a, b, i + 1, level)

compareAlphabetically(a, b) ==
  LET primary == compareLevel(a, b, 1, 1)
  IN  IF primary # 0 THEN primary ELSE compareLevel(a, b, 1, 2)

\* Array.prototype.sort(utils.compareAlphabetically): a stable sort
insertSorted(sorted, x) ==
  LET after == {i \in DOMAIN sorted : compareAlphabetically(sorted[i], x) > 0}
      k == IF after = {} THEN Len(sorted) + 1
           ELSE CHOOSE i \in after : \A j \in after : i <= j
  IN  SubSeq(sorted, 1, k - 1) \o <<x>> \o SubSeq(sorted, k, Len(sorted))

\* names left in discovery order
sortSkipped(arr) == arr

RECURSIVE sortAlphabetically(_)
sortAlphabetically(arr) ==
  IF arr = <<>> THEN <<>>
  ELSE insertSorted(sortAlphabetically(SubSeq(arr, 1, Len(arr) - 1)), arr[Len(arr)])

(***************************************************************************)
(* utils.groupBy.  The groups are the properties of an object literal, so  *)
(* a key that names a property every object inherits finds that inherited  *)
(* value instead of a missing group, and pushing to it throws a TypeError. *)
(***************************************************************************)
ObjectPrototypeKeys ==
  {"constructor", "toString", "toLocaleString", "valueOf", "hasOwnProperty",
   "isPrototypeOf", "propertyIsEnumerable", "__proto__"}

groupByThrows(keys) == \E i \in DOMAIN keys : keys[i] \in ObjectPrototypeKeys

\* the group of key k: the elements whose key is k, in iteration order
RECURSIVE groupOf(_, _, _)
groupOf(iterable, keys, k) ==
  IF iterable = <<>> THEN <<>>
  ELSE (IF Head(keys) = k THEN <<Head(iterable)>> ELSE <<>>)
       \o groupOf(Tail(iterable), Tail(keys), k)

groupBy(iterable, keys) ==
  [k \in {keys[i] : i \in DOMAIN keys} |-> groupOf(iterable, keys, k)]

(***************************************************************************)
(* The two regular expressions of ProgramGenerator, matched as matchAll    *)
(* matches a global pattern: leftmost first, the next search starting      *)
(* where the last match ended.                                             *)
(***************************************************************************)

\* internalTypePattern is the alternation of the registered tokens in
\* registry order; at a position the first alternative that matches wins.
\* The index of that alternative, or 0.
firstAlternativeAt(types, value, p) ==
  LET hits == {i \in DOMAIN types : StartsWithAt(value, p, types[i])}
  IN  IF hits = {} THEN 0 ELSE CHOOSE i \in hits : \A j \in hits : i <= j

RECURSIVE matchAllInternalTypes(_, _, _)
matchAllInternalTypes(types, value, p) ==
  IF p > Len(value) THEN <<>>
  ELSE LET i == firstAlternativeAt(types, value, p)
       IN  IF i = 0 THEN matchAllInternalTypes(types, value, p + 1)
           ELSE <<types[i]>> \o matchAllInternalTypes(types, value, p + Len(types[i]))

\* /\w+Options /g at position p: \w+ takes as many word characters as still
\* leave "Options " behind them.  The length of the match, or 0.
optionsMatchAt(text, p) ==
  LET ks == {k \in 1..(Len(text) - p + 1) :
               /\ \A j \in p..(p + k - 1) : CharAt(text, j) \in WordChars
               /\ StartsWithAt(text, p + k, "Options ")}
  IN  IF ks = {} THEN 0
      ELSE (CHOOSE k \in ks : \A j \in ks : j <= k) + Len("Options ")

RECURSIVE matchAllOptions(_, _)
matchAllOptions(text, p) ==
  IF p > Len(text) THEN <<>>
  ELSE LET n == optionsMatchAt(text, p)
       IN  IF n = 0 THEN matchAllOptions(text, p + 1)
           ELSE <<SubSeq(text, p, p + n - 1)>> \o matchAllOptions(text, p + n)

(***************************************************************************)
(* class Method                                                            *)
(***************************************************************************)
MethodInit(name) ==
  [name |-> name,
   description |-> "Creates an schema for a " \o name \o " type.",
   declarations |-> <<>>,
   parameters |-> [names |-> <<>>]]

addDeclarations(method, declarations) ==
  [method EXCEPT !.declarations = @ \o declarations]

\* the forEach without its includes test: every name text pushed
pushEveryName(names, nameTxts) == names \o nameTxts

\* the forEach of #step1_addParametersNames: push each name text not there yet
RECURSIVE pushNewNames(_, _)
pushNewNames(names, nameTxts) ==
  IF nameTxts = <<>> THEN names
  ELSE pushNewNames(IF includes(names, Head(nameTxts)) THEN names
                    ELSE Append(names, Head(nameTxts)),
                    Tail(nameTxts))

step1_addParametersNames(method) ==
  LET params == flat([i \in DOMAIN method.declarations |->
                        method.declarations[i].parameters])
      named == SelectSeq(params, LAMBDA prm : hasProperty(prm.name))
      nameTxts == [i \in DOMAIN named |-> named[i].name[1]]
  IN  [method EXCEPT !.parameters.names = pushNewNames(@, nameTxts)]

triggerInitTasks(method) == step1_addParametersNames(method)

JsdocStart == "/**"
JsdocEnd == " */"
JsdocEmptyLine == " *"
JsdocDescription(method) == " * " \o method.description

getTemplateData(method) ==
  [name |-> method.name,
   comment |-> join(<<JsdocStart, JsdocDescription(method), JsdocEmptyLine,
                      JsdocEnd>>, "\n"),
   parameters |-> join(method.parameters.names, ", ")]

(***************************************************************************)
(* class ProgramGenerator: configuration and predicates                    *)
(***************************************************************************)
ConfigDir == "node_modules/@sinclair/typebox/build/import/type/type"
ConfigBuilders == <<"JavaScriptTypeBuilder", "JsonTypeBuilder">>
ConfigRootFiles == <<ConfigDir \o "/json.d.mts", ConfigDir \o "/javascript.d.mts">>

\* the root-file test dropped: every file of the program taken for a root
acceptsEverySource(source) == TRUE

isRootFileSource(source) == includes(ConfigRootFiles, source.fileName)

isClassDeclaration(node) ==
  node.kind = "ClassDeclaration" /\ node.name # <<>>

\* the allow-list test dropped: every named class taken for a builder
acceptsEveryClass(classDecl) == TRUE

isBuilderClassDeclaration(classDecl) == includes(ConfigBuilders, classDecl.name[1])

isMethodDeclaration(member) == member.kind = "MethodDeclaration"

getNameText(propertyName) == propertyName[1]

\* the initial value of the internalTypes field
SeedInternalTypes ==
  <<"Static", "TSchema", "TMappedResult", "TEnumKey", "TEnumValue",
    "TTemplateLiteral", "TMappedKey", "TLiteralValue", "TMappedFunction",
    "TMapped", "TProperties", "TIndexPropertyKeys", "TTemplateLiteralKind">>

(***************************************************************************)
(* Syntax trees, as the TypeScript compiler hands them to the generator.   *)
(***************************************************************************)
Parameter(name) == [name |-> <<name>>]

MethodDecl(name, parameters) ==
  [kind |-> "MethodDeclaration", name |-> <<name>>, parameters |-> parameters]

PropertyDecl(name) ==
  [kind |-> "PropertyDeclaration", name |-> <<name>>, parameters |-> <<>>]

ClassDecl(name, members) ==
  [kind |-> "ClassDeclaration", name |-> name, members |-> members]

\* top-level statements that are no class: an interface, and a namespace
\* whose body (its members here) holds further declarations
InterfaceDecl(name) ==
  [kind |-> "InterfaceDeclaration", name |-> <<name>>, members |-> <<>>]

ModuleDecl(name, body) ==
  [kind |-> "ModuleDeclaration", name |-> <<name>>, members |-> body]

\* a root path with no file behind it, and one with a file
Missing == [found |-> FALSE, children |-> <<>>, text |-> ""]
Found(children, text) == [found |-> TRUE, children |-> children, text |-> text]

\* a file of the program that is not a configured root: the compiler's
\* default library, here declaring a class with a builder's name
LibSource ==
  [fileName |-> "lib.d.ts",
   children |-> <<ClassDecl(<<"JsonTypeBuilder">>, <<MethodDecl("Lib", <<>>)>>)>>,
   text |-> "interface LibOptions {}\n"]

\* ts.createProgram(rootFiles, {}).getSourceFiles(): createProgram does not
\* throw on a root file it cannot read; it records a diagnostic and leaves
\* the file out of the program
getSourceFiles(d) ==
  <<LibSource>> \o
  flat([i \in DOMAIN ConfigRootFiles |->
          IF d[i].found
          THEN <<[fileName |-> ConfigRootFiles[i], children |-> d[i].children,
                  text |-> d[i].text]>>
          ELSE <<>>])

(***************************************************************************)
(* ProgramGenerator's methods, as functions of the fields they read.       *)
(***************************************************************************)
fillBuilders(srcs) ==
  flat([i \in DOMAIN srcs |->
          SelectSeq(srcs[i].children,
                    LAMBDA node : isClassDeclaration(node)
                                  /\ isBuilderClassDeclaration(node))])

fullTextOf(srcs) == join([i \in DOMAIN srcs |-> srcs[i].text \o "\n"], "")

fillOptionTypeNames(types, srcs) ==
  LET found == matchAllOptions(fullTextOf(srcs), 1)
  IN  types \o getUnique([i \in DOMAIN found |-> trim(found[i])])

rawMethodsOf(bldrs) ==
  SelectSeq(SelectSeq(flat([i \in DOMAIN bldrs |-> bldrs[i].members]),
                      isMethodDeclaration),
            LAMBDA member : hasProperty(member.name))

rawMethodKeys(rawMethods) ==
  [i \in DOMAIN rawMethods |-> getNameText(rawMethods[i].name)]

methodNamesOf(rawMethods) == sortAlphabetically(getUnique(rawMethodKeys(rawMethods)))

\* the forEach without its includes test: every candidate pushed
pushEveryType(types, candidates) == types \o candidates

\* the forEach over the T-prefixed names: push each one not registered yet
RECURSIVE pushNewTypes(_, _)
pushNewTypes(types, candidates) ==
  IF candidates = <<>> THEN types
  ELSE pushNewTypes(IF includes(types, Head(candidates)) THEN types
                    ELSE Append(types, Head(candidates)),
                    Tail(candidates))

addMethodTypes(types, names) ==
  pushNewTypes(types, [i \in DOMAIN names |-> addPrefix("T", "", names[i])])

\* whether #fillMethods throws: groupBy does, or a method has no group to
\* spread into addDeclarations
fillMethodsThrows(rawMethods) ==
  \/ groupByThrows(rawMethodKeys(rawMethods))
  \/ \E i \in DOMAIN methodNamesOf(rawMethods) :
       methodNamesOf(rawMethods)[i]
         \notin DOMAIN groupBy(rawMethods, rawMethodKeys(rawMethods))

fillMethods(rawMethods) ==
  LET names == methodNamesOf(rawMethods)
      groupings == groupBy(rawMethods, rawMethodKeys(rawMethods))
  IN  [i \in DOMAIN names |->
         triggerInitTasks(addDeclarations(MethodInit(names[i]),
                                          groupings[names[i]]))]

RECURSIVE patchItems(_, _, _)
patchItems(patch, items, types) ==
  IF items = <<>> THEN patch
  ELSE patchItems(IF includes(types, Head(items))
                  THEN replaceAll(patch, Head(items),
                                  addPrefix("typebox", ".", Head(items)))
                  ELSE patch,
                  Tail(items), types)

patchType(value, types) ==
  trim(patchItems(value, getUnique(matchAllInternalTypes(types, value, 1)), types))

(***************************************************************************)
(* The inputs the specifications draw from.                                *)
(***************************************************************************)
ObjectProps == MethodDecl("Object", <<Parameter("props")>>)
ObjectPropsOptions == MethodDecl("Object", <<Parameter("props"), Parameter("options")>>)
NumberNoArgs == MethodDecl("Number", <<>>)
MappedKeyMap == MethodDecl("Mapped", <<Parameter("key"), Parameter("map")>>)
ToStringNoArgs == MethodDecl("toString", <<>>)

\* members of a class declaration
MemberPool ==
  {ObjectProps, ObjectPropsOptions, NumberNoArgs, ToStringNoArgs, PropertyDecl("Kind")}

WriteMemberPool == {ObjectProps, NumberNoArgs, ToStringNoArgs}

\* fragments of a declaration file's text
TextWords ==
  {"FooOptions ", "BarOptions ", "ArrayOptions ", "Uint8ArrayOptions ",
   "Options ", "DateOptions;"}

\* fragments of a string handed to patchType
PatchPieces ==
  {"TMapped", "TMappedResult ", "Static", "Foo", "My", "typebox.", "FooOptions",
   "ArrayOptions", "Uint8ArrayOptions "}

Texts == {join(ws, "") : ws \in SeqsUpTo(TextWords, MaxWords)}

PatchValues == {join(ps, "") : ps \in SeqsUpTo(PatchPieces, MaxPieces)}

OneClass(names, pool, text) ==
  {Found(<<ClassDecl(<<n>>, ms)>>, text) :
     n \in names, ms \in SeqsUpTo(pool, MaxMembers)}

\* the files behind the two root paths, for the method collector
CollectFiles ==
  <<{Missing} \cup OneClass({"JsonTypeBuilder"}, MemberPool,
                            "options?: ObjectOptions ): TObject;"),
    OneClass({"JavaScriptTypeBuilder", "TypeBuilder"}, MemberPool, "")>>

\* for the writer
WriteFiles ==
  <<{Missing} \cup OneClass({"JsonTypeBuilder"}, WriteMemberPool, ""),
    OneClass({"JavaScriptTypeBuilder", "TypeBuilder"}, WriteMemberPool, "")>>

\* for the registry and the patcher
PatchFiles ==
  <<{Found(<<ClassDecl(<<"JsonTypeBuilder">>, <<NumberNoArgs>>)>>, t) : t \in Texts},
    {Missing,
     Found(<<ClassDecl(<<"JavaScriptTypeBuilder">>, <<MappedKeyMap, NumberNoArgs>>)>>,
           "")}>>

\* top-level statements for the builder filter: the two builder classes, a
\* class with another name, a class without a name, an interface with a
\* builder's name, and a namespace holding a class with a builder's name
JsonBuilderClass == ClassDecl(<<"JsonTypeBuilder">>, <<NumberNoArgs>>)
JavaScriptBuilderClass == ClassDecl(<<"JavaScriptTypeBuilder">>, <<ObjectProps>>)
OtherClass == ClassDecl(<<"TypeBuilder">>, <<NumberNoArgs>>)
UnnamedClass == ClassDecl(<<>>, <<NumberNoArgs>>)
BuilderInterface == InterfaceDecl("JsonTypeBuilder")
NestedBuilderClass ==
  ModuleDecl("Nested", <<ClassDecl(<<"JsonTypeBuilder">>, <<ObjectPropsOptions>>)>>)

FilterNodePool ==
  {JsonBuilderClass, JavaScriptBuilderClass, OtherClass, UnnamedClass,
   BuilderInterface, NestedBuilderClass}

FilterFiles ==
  <<{Missing} \cup {Found(ns, "") : ns \in SeqsUpTo(FilterNodePool, MaxNodes)},
    {Found(ns, "") : ns \in SeqsUpTo(FilterNodePool, MaxNodes)}>>

\* for the registry: methods whose T-prefixed name is in the seed list
\* (Mapped) or is put there by the Options scan (Options, by "TOptions ")
OptionsNoArgs == MethodDecl("Options", <<>>)

RegistryMemberPool == {MappedKeyMap, NumberNoArgs, OptionsNoArgs}

RegistryWords == {"TOptions ", "NumberOptions ", "TNumberOptions;"}

RegistryTexts == {join(ws, "") : ws \in SeqsUpTo(RegistryWords, MaxWords)}

RegistryFiles ==
  <<{Found(<<ClassDecl(<<"JsonTypeBuilder">>, ms)>>, t) :
       ms \in SeqsUpTo(RegistryMemberPool, MaxMembers), t \in RegistryTexts},
    {Missing,
     Found(<<ClassDecl(<<"JavaScriptTypeBuilder">>, <<NumberNoArgs>>)>>, "")}>>

(***************************************************************************)
(* The state after the field initialisers that need no file: the action    *)
(* is running and has reached `new ProgramGenerator()`.                    *)
(***************************************************************************)
PreviousFile == [written |-> FALSE, text |-> <<>>]
Idle == [state |-> "idle", options |-> "unresolved"]

Init ==
  /\ disk = <<>>
  /\ sources = <<>>
  /\ builders = <<>>
  /\ internalTypes = SeedInternalTypes
  /\ methods = <<>>
  /\ ctor = "new"
  /\ action = "running"
  /\ wtf = Idle
  /\ content = <<>>
  /\ outFile = PreviousFile
  /\ fault = "none"
  /\ patchIn = <<>>
  /\ patchOut = <<>>

(***************************************************************************)
(* new ProgramGenerator(): the tsProgram and sources initialisers, then    *)
(* the three private methods the constructor chains.                       *)
(***************************************************************************)
\* Files[i] is the set of files the run may find behind root path i
CreateProgram(Files) ==
  /\ ctor = "new"
  /\ \E first \in Files[1], second \in Files[2] :
       LET d == <<first, second>>
       IN
       /\ disk' = d
       /\ sources' = SelectSeq(getSourceFiles(d), isRootFileSource)
  /\ ctor' = "program"
  /\ UNCHANGED <<builders, internalTypes, methods, action, wtf, content, outFile,
                 fault, patchIn, patchOut>>

FillBuilders ==
  /\ ctor = "program"
  /\ builders' = builders \o fillBuilders(sources)
  /\ ctor' = "builders"
  /\ UNCHANGED <<disk, sources, internalTypes, methods, action, wtf, content,
                 outFile, fault, patchIn, patchOut>>

FillOptionTypeNames ==
  /\ ctor = "builders"
  /\ internalTypes' = fillOptionTypeNames(internalTypes, sources)
  /\ ctor' = "options"
  /\ UNCHANGED <<disk, sources, builders, methods, action, wtf, content, outFile,
                 fault, patchIn, patchOut>>

\* #fillMethods registers the T-prefixed names before it groups; when it
\* throws, the constructor throws and the async action is rejected
FillMethods ==
  /\ ctor = "options"
  /\ LET rawMethods == rawMethodsOf(builders)
     IN  /\ internalTypes' = addMethodTypes(internalTypes, methodNamesOf(rawMethods))
         /\ IF fillMethodsThrows(rawMethods)
            THEN /\ ctor' = "threw"
                 /\ action' = "rejected"
                 /\ UNCHANGED methods
            ELSE /\ ctor' = "constructed"
                 /\ methods' = methods \o fillMethods(rawMethods)
                 /\ UNCHANGED action
  /\ UNCHANGED <<disk, sources, builders, wtf, content, outFile, fault, patchIn,
                 patchOut>>

Construct(Files) ==
  \/ CreateProgram(Files)
  \/ FillBuilders
  \/ FillOptionTypeNames
  \/ FillMethods

NextCollect == Construct(CollectFiles)

Spec == Init /\ [][NextCollect]_vars

(***************************************************************************)
(* The generate:types action and writeToFile.  handle calls writeToFile    *)
(* and drops the promise it returns: writeToFile runs to its first await   *)
(* inside the call, and handle then runs to its end in the same turn.      *)
(***************************************************************************)

\* mustache expands the template's methods section once per entry, in order
renderTemplate(replacements) ==
  [i \in DOMAIN replacements.methods |-> [stub |-> replacements.methods[i]]]

\* prettier.format(content, options || {})
format(text, options) ==
  [formatted |-> text, with |-> IF options = "null" THEN "defaults" ELSE options]

CallWriteToFile ==
  /\ ctor = "constructed"
  /\ action = "running"
  /\ wtf.state = "idle"
  /\ \E rendered \in BOOLEAN :
       IF rendered
       THEN /\ content' = renderTemplate(
                            [methods |-> [i \in DOMAIN methods |-> getTemplateData(methods[i])]])
            /\ wtf' = [wtf EXCEPT !.state = "awaitResolveConfig"]
            /\ UNCHANGED fault
       ELSE /\ wtf' = [wtf EXCEPT !.state = "rejected"]
            /\ fault' = "render"
            /\ UNCHANGED content
  /\ action' = "resolved"
  /\ UNCHANGED <<disk, sources, builders, internalTypes, methods, ctor, outFile,
                 patchIn, patchOut>>

\* await prettier.resolveConfig(path) settles
ResolveConfigSettles ==
  /\ wtf.state = "awaitResolveConfig"
  /\ \E result \in {"null", "project", "error"} :
       IF result = "error"
       THEN /\ wtf' = [wtf EXCEPT !.state = "rejected"]
            /\ fault' = "resolveConfig"
       ELSE /\ wtf' = [state |-> "awaitFormat", options |-> result]
            /\ UNCHANGED fault
  /\ UNCHANGED <<disk, sources, builders, internalTypes, methods, ctor, action,
                 content, outFile, patchIn, patchOut>>

\* the write moved ahead of the formatter: the rendered text is on disk
\* whatever prettier.format returns
FormatSettlesAfterWriting ==
  /\ wtf.state = "awaitFormat"
  /\ \E result \in {"written", "formatError", "writeError", "writeErrorMidway"} :
       /\ wtf' = [wtf EXCEPT !.state = IF result = "written" THEN "fulfilled"
                                       ELSE "rejected"]
       /\ fault' = IF result = "written" THEN fault
                   ELSE IF result = "formatError" THEN "format" ELSE "write"
       /\ outFile' = IF result \in {"written", "formatError"}
                     THEN [written |-> TRUE, text |-> <<format(content, wtf.options)>>]
                     ELSE IF result = "writeErrorMidway"
                     THEN [written |-> TRUE, text |-> <<>>]
                     ELSE outFile
  /\ UNCHANGED <<disk, sources, builders, internalTypes, methods, ctor, action,
                 content, patchIn, patchOut>>

\* await prettier.format(...) settles, and fs.writeFileSync runs in the same
\* turn; a write that fails may have touched the file already
FormatSettles ==
  /\ wtf.state = "awaitFormat"
  /\ \E result \in {"written", "formatError", "writeError", "writeErrorMidway"} :
       /\ wtf' = [wtf EXCEPT !.state = IF result = "written" THEN "fulfilled"
                                       ELSE "rejected"]
       /\ fault' = IF result = "written" THEN fault
                   ELSE IF result = "formatError" THEN "format" ELSE "write"
       /\ outFile' = IF result = "written"
                     THEN [written |-> TRUE, text |-> <<format(content, wtf.options)>>]
                     ELSE IF result = "writeErrorMidway"
                     THEN [written |-> TRUE, text |-> <<>>]
                     ELSE outFile
  /\ UNCHANGED <<disk, sources, builders, internalTypes, methods, ctor, action,
                 content, patchIn, patchOut>>

\* one call of patchType on the constructed generator
PatchType ==
  /\ ctor = "constructed"
  /\ patchIn = <<>>
  /\ \E value \in PatchValues :
       /\ patchIn' = <<value>>
       /\ patchOut' = <<patchType(value, internalTypes)>>
  /\ UNCHANGED <<disk, sources, builders, internalTypes, methods, ctor, action,
                 wtf, content, outFile, fault>>

NextWrite ==
  \/ Construct(WriteFiles)
  \/ CallWriteToFile
  \/ ResolveConfigSettles
  \/ FormatSettles

SpecWrite == Init /\ [][NextWrite]_vars

NextPatch ==
  \/ Construct(PatchFiles)
  \/ PatchType

SpecPatch == Init /\ [][NextPatch]_vars

NextFilter == Construct(FilterFiles)

SpecFilter == Init /\ [][NextFilter]_vars

NextRegistry == Construct(RegistryFiles)

SpecRegistry == Init /\ [][NextRegistry]_vars

(***************************************************************************)
(* Properties                                                              *)
(***************************************************************************)
Range(seq) == {seq[i] : i \in DOMAIN seq}

NoRepeats(seq) == \A i, j \in DOMAIN seq : seq[i] = seq[j] => i = j

MethodNames == [i \in DOMAIN methods |-> methods[i].name]

\* the members of all entries of builders
BuilderMembers == UNION {Range(builders[i].members) : i \in DOMAIN builders}

\* the name texts of the named method declarations among them
DeclaredMethodNames ==
  {m.name[1] : m \in {x \in BuilderMembers :
                        x.kind = "MethodDeclaration" /\ x.name # <<>>}}

\* C1: once the generator is constructed, the names of the entries of methods
\* are exactly the name texts of the named method declarations among the
\* members of the builder classes, and no name occurs twice in methods.
C1_MethodNamesAreTheDeclaredNames ==
  ctor = "constructed" =>
    /\ Range(MethodNames) = DeclaredMethodNames
    /\ NoRepeats(MethodNames)

\* a name declared in both builder classes, next to a member that is no method
C1_Witness ==
  /\ ctor = "constructed"
  /\ Len(builders) = 2
  /\ MethodNames = <<"Number", "Object">>
  /\ \A i \in DOMAIN builders : ObjectProps \in Range(builders[i].members)
  /\ \E m \in BuilderMembers : m.kind = "PropertyDeclaration"

\* the parameter name texts of a method's declarations, declaration by
\* declaration and left to right
ParameterTexts(method) ==
  flat([i \in DOMAIN method.declarations |->
          [k \in DOMAIN method.declarations[i].parameters |->
             method.declarations[i].parameters[k].name[1]]])

FirstIndex(seq, v) == CHOOSE i \in DOMAIN seq : seq[i] = v /\ \A j \in 1..(i - 1) : seq[j] # v

\* C2: a method's parameters.names holds each distinct parameter name text of
\* its declarations exactly once, ordered by first occurrence.
C2_ParameterNamesMergedInFirstSeenOrder ==
  \A i \in DOMAIN methods :
    LET names == methods[i].parameters.names
        texts == ParameterTexts(methods[i])
    IN  /\ NoRepeats(names)
        /\ Range(names) = Range(texts)
        /\ \A a, b \in DOMAIN names :
             a < b => FirstIndex(texts, names[a]) < FirstIndex(texts, names[b])

\* the overloads Object(props) then Object(props, options)
C2_Witness ==
  \E i \in DOMAIN methods :
    /\ methods[i].declarations = <<ObjectProps, ObjectPropsOptions>>
    /\ methods[i].parameters.names = <<"props", "options">>

\* the length of the identifier (the longest run of word characters) that
\* starts at position p of value
IdentifierLengthAt(value, p) ==
  CHOOSE n \in 1..(Len(value) - p + 1) :
    /\ \A j \in p..(p + n - 1) : CharAt(value, j) \in WordChars
    /\ p + n > Len(value) \/ CharAt(value, p + n) \notin WordChars

\* value with each identifier that is a registered token, and no other,
\* qualified
RECURSIVE qualifyWholeTokens(_, _, _)
qualifyWholeTokens(value, p, types) ==
  IF p > Len(value) THEN ""
  ELSE IF CharAt(value, p) \notin WordChars
       THEN CharAt(value, p) \o qualifyWholeTokens(value, p + 1, types)
       ELSE LET n == IdentifierLengthAt(value, p)
                id == SubSeq(value, p, p + n - 1)
            IN  (IF includes(types, id) THEN "typebox." \o id ELSE id)
                \o qualifyWholeTokens(value, p + n, types)

\* C3: patchType rewrites every whole-identifier occurrence of a registered
\* token to typebox.<Token> and leaves every longer identifier that merely
\* contains a registered token unchanged.
C3_PatchTypeQualifiesWholeTokensOnly ==
  patchIn # <<>> =>
    patchOut[1] = trim(qualifyWholeTokens(patchIn[1], 1, internalTypes))

\* the registry never shrinks or reorders: what was registered stays in place
RegistryGrows ==
  /\ Len(internalTypes) <= Len(internalTypes')
  /\ SubSeq(internalTypes', 1, Len(internalTypes)) = internalTypes

\* #fillMethods adds exactly the T-prefixed names not registered yet, so
\* adding the ones already present changes nothing
AddingPresentTokenIsNoOp ==
  ctor = "options" =>
    Len(internalTypes') = Len(internalTypes)
      + Cardinality({n \in DeclaredMethodNames : ~includes(internalTypes, "T" \o n)})

\* C4: in every state of the construction internalTypes holds no token twice,
\* every token of an earlier state is in every later one, and adding a token
\* already present leaves the registry unchanged.
C4_RegistryIsAGrowingSet ==
  /\ []NoRepeats(internalTypes)
  /\ [][RegistryGrows /\ AddingPresentTokenIsNoOp]_vars

\* a text naming FooOptions twice, and a method Mapped whose T-prefixed name
\* is in the seed list
C4_Witness ==
  /\ ctor = "constructed"
  /\ disk[1].text = "FooOptions FooOptions "
  /\ includes(MethodNames, "Mapped")
  /\ internalTypes = SeedInternalTypes \o <<"FooOptions", "TNumber">>

\* the names in the order the declarations are discovered
DiscoveredNames == getUnique(rawMethodKeys(rawMethodsOf(builders)))

\* writeToFile has rendered the template
Rendered == wtf.state \in {"awaitResolveConfig", "awaitFormat", "fulfilled"}
            \/ (wtf.state = "rejected" /\ fault # "render")

\* C5: the entries of methods are in alphabetical order of their names,
\* whatever the discovery order, and the module is rendered from them in that
\* order.
C5_MethodsAlphabeticalAndRenderedInOrder ==
  /\ ctor = "constructed" =>
       \A i, j \in DOMAIN methods :
         i < j => compareAlphabetically(methods[i].name, methods[j].name) < 0
  /\ Rendered => [i \in DOMAIN content |-> content[i].stub.name] = MethodNames

\* Object discovered before Number, and the file written
C5_Witness ==
  /\ ctor = "constructed"
  /\ DiscoveredNames = <<"Object", "Number">>
  /\ MethodNames = <<"Number", "Object">>
  /\ wtf.state = "fulfilled"
  /\ Len(outFile.text[1].formatted) = 2

\* no top-level class of any root source has a name in the allow-list
NoBuilderClassDeclared ==
  /\ ctor # "new"
  /\ \A i \in DOMAIN sources : \A k \in DOMAIN sources[i].children :
       LET node == sources[i].children[k]
       IN  ~(/\ node.kind = "ClassDeclaration"
             /\ node.name # <<>>
             /\ node.name[1] \in Range(ConfigBuilders))

\* C7: with no builder class declared the construction completes without an
\* error, builders and methods stay empty, and writeToFile renders and writes
\* a module of zero method stubs; it fails only when a collaborator does.
C7_NoBuildersGivesEmptyModule ==
  NoBuilderClassDeclared =>
    /\ ctor # "threw"
    /\ action # "rejected"
    /\ builders = <<>>
    /\ methods = <<>>
    /\ Rendered => content = <<>>
    /\ wtf.state = "rejected" => fault \in {"render", "resolveConfig", "format", "write"}
    /\ wtf.state = "fulfilled" =>
         /\ outFile.written
         /\ outFile.text[1].formatted = <<>>

\* a class that is no builder declares methods, and the empty module is written
C7_Witness ==
  /\ NoBuilderClassDeclared
  /\ \E i \in DOMAIN sources : \E k \in DOMAIN sources[i].children :
       /\ sources[i].children[k].name = <<"TypeBuilder">>
       /\ sources[i].children[k].members # <<>>
  /\ ctor = "constructed"
  /\ wtf.state = "fulfilled"
  /\ outFile.written
  /\ outFile.text[1].formatted = <<>>

\* the identifiers of a text: its longest runs of word characters, each with
\* the position after its last character
IdentifiersOf(text) ==
  {<<SubSeq(text, p, p + IdentifierLengthAt(text, p) - 1),
     p + IdentifierLengthAt(text, p)>> :
     p \in {q \in 1..Len(text) :
              /\ CharAt(text, q) \in WordChars
              /\ q = 1 \/ CharAt(text, q - 1) \notin WordChars}}

EndsWith(s, suffix) ==
  Len(s) >= Len(suffix) /\ SubSeq(s, Len(s) - Len(suffix) + 1, Len(s)) = suffix

\* the words of a text that end in Options after at least one more character
\* and have a space right behind them
OptionsWords(text) ==
  {id[1] : id \in {x \in IdentifiersOf(text) :
                     /\ EndsWith(x[1], "Options")
                     /\ Len(x[1]) > Len("Options")
                     /\ CharAt(text, x[2]) = " "}}

\* the words the Options scan registers are in the registry once the
\* generator is constructed, and a text without one adds nothing
OptionsWordsRegistered ==
  /\ ctor = "constructed" =>
       \A w \in OptionsWords(fullTextOf(sources)) : includes(internalTypes, w)
  /\ ctor = "options" /\ OptionsWords(fullTextOf(sources)) = {} =>
       internalTypes = SeedInternalTypes

\* C8: every word ending in Options that a space follows in a root source's
\* text is registered after construction, patchType then rewrites each bare
\* occurrence of it to typebox.<token>, and a text without such a word leaves
\* the registry as it was.
C8_OptionsWordsRegisteredAndPatched ==
  /\ OptionsWordsRegistered
  /\ (/\ ctor = "constructed"
      /\ patchIn # <<>>
      /\ IdentifiersOf(patchIn[1]) # {}
      /\ \A id \in IdentifiersOf(patchIn[1]) : id[1] \in OptionsWords(fullTextOf(sources)))
     => patchOut[1] = trim(qualifyWholeTokens(patchIn[1], 1, internalTypes))

\* C9: with a configured root file missing the run aborts: the constructor
\* never gets past creating the program, nothing is collected, and it never
\* completes with only some of the sources.
C9_MissingRootFileAbortsTheRun ==
  (ctor # "new" /\ \E i \in DOMAIN disk : ~disk[i].found) =>
    /\ ctor \notin {"builders", "options", "constructed"}
    /\ builders = <<>>
    /\ methods = <<>>
    /\ internalTypes = SeedInternalTypes

\* C10: the action does not complete before writeToFile has finished, and a
\* failure of writeToFile is a failure of the action.
C10_ActionAwaitsWriteToFile ==
  /\ action = "resolved" => wtf.state = "fulfilled"
  /\ wtf.state = "rejected" => action = "rejected"

\* the grave accent (U+0060), which a TLA+ string cannot hold, is written as
\* an apostrophe; no string of the program contains either character
Backquote == "'"

\* the description the documentation is to carry for a method named n
SchemaDescription(n) == "Creates a schema for a " \o Backquote \o n \o Backquote \o " type."

\* the documentation block getTemplateData builds holds the method's
\* description on a line of its own between the opening and closing delimiters
CommentCarriesDescription ==
  Rendered =>
    \A i \in DOMAIN content :
      content[i].stub.comment
        = "/**" \o "\n" \o " * " \o methods[i].description \o "\n" \o " *" \o "\n" \o " */"

\* C11: a Method named n is described by exactly "Creates a schema for a `n`
\* type.", and the documentation block of its template data holds that
\* description verbatim between the opening and the closing delimiter.
C11_DescriptionIsTheSchemaSentence ==
  /\ \A i \in DOMAIN methods : methods[i].description = SchemaDescription(methods[i].name)
  /\ CommentCarriesDescription

\* the orders in which the entries of a sequence can be visited
VisitOrders(n) == {p \in [1..n -> 1..n] : \A i, j \in 1..n : p[i] = p[j] => i = j}

\* the distinct tokens patchType matched in its last input
MatchedItems == getUnique(matchAllInternalTypes(internalTypes, patchIn[1], 1))

\* C12: the result of patchType does not depend on the order in which the
\* distinct matched tokens are replaced: replacing them in any permutation
\* gives the output patchType returned, also when one registered token lies
\* inside another or inside an already qualified reference.
C12_PatchTypeIsIndependentOfReplacementOrder ==
  patchIn # <<>> =>
    \A p \in VisitOrders(Len(MatchedItems)) :
      trim(patchItems(patchIn[1],
                      [i \in 1..Len(MatchedItems) |-> MatchedItems[p[i]]],
                      internalTypes))
        = patchOut[1]

\* groupBy makes no group for the name: `ret[key] ??= []` finds the value the
\* empty object inherits under that key and creates no array
GroupAbsent(name) == name \in ObjectPrototypeKeys

\* C13: when #fillMethods finds no group of declarations for a method name,
\* that method is skipped and the remaining methods are still constructed; the
\* construction run is not aborted by an error.
C13_AbsentGroupIsSkippedNotFatal ==
  ctor \in {"constructed", "threw"} =>
    /\ ctor = "constructed"
    /\ Range(MethodNames) = {n \in DeclaredMethodNames : ~GroupAbsent(n)}

\* the direct top-level statements of a file that are class declarations
\* with a name of the allow-list, in declaration order
TopLevelBuilderClasses(file) ==
  SelectSeq(file.children,
            LAMBDA node : /\ node.kind = "ClassDeclaration"
                          /\ node.name # <<>>
                          /\ node.name[1] \in Range(ConfigBuilders))

\* C14: after #fillBuilders, builders is exactly the sequence of the direct
\* top-level class declarations of the root sources whose name is in the
\* allow-list, in source-list order and then in declaration order; nested
\* classes, unnamed classes, classes with other names and classes of files
\* that are no root never appear.
C14_BuildersAreTheTopLevelAllowListedClasses ==
  ctor \notin {"new", "program"} =>
    builders = flat([i \in DOMAIN ConfigRootFiles |->
                       IF disk[i].found THEN TopLevelBuilderClasses(disk[i])
                       ELSE <<>>])

\* a nested builder class is passed over, and three builders are found in
\* source order and then declaration order
C14_Witness ==
  /\ ctor = "constructed"
  /\ disk[1].children = <<NestedBuilderClass, JsonBuilderClass>>
  /\ disk[2].children = <<JavaScriptBuilderClass, JsonBuilderClass>>
  /\ builders = <<JsonBuilderClass, JavaScriptBuilderClass, JsonBuilderClass>>

\* a step that changes the output file is taken by a call that has rendered
\* the template and resolved the formatter's configuration, and whose
\* formatting did not fail
WriteComesLast ==
  outFile' # outFile =>
    /\ Rendered
    /\ wtf.state = "awaitFormat"
    /\ wtf.options \in {"null", "project"}
    /\ fault' # "format"

\* C15: in writeToFile the file write is the last step: when rendering,
\* resolving the formatter's configuration or formatting fails, the output
\* file is as it was before the call, and the file is modified only after all
\* three have succeeded.
C15_FailureBeforeTheWriteLeavesTheFile ==
  /\ [](fault \in {"render", "resolveConfig", "format"} => outFile = PreviousFile)
  /\ [][WriteComesLast]_vars

\* the formatter has failed and the previous file is still in place
C15_Witness ==
  /\ wtf.state = "rejected"
  /\ fault = "format"
  /\ content # <<>>
  /\ outFile = PreviousFile

\* how often v occurs in seq
Occurrences(seq, v) == Cardinality({i \in DOMAIN seq : seq[i] = v})

\* the T-prefixed names of the entries of methods
MethodTypeTokens == {"T" \o methods[i].name : i \in DOMAIN methods}

\* the step in which #fillMethods completes appends to the registry exactly
\* the T-prefixed method names that were not in it, each once
FillMethodsAddsOnlyAbsentTokens ==
  (ctor = "options" /\ ctor' = "constructed") =>
    \E added \in SeqsUpTo(MethodTypeTokens' \ Range(internalTypes),
                          Cardinality(MethodTypeTokens')) :
      /\ NoRepeats(added)
      /\ Range(added) = MethodTypeTokens' \ Range(internalTypes)
      /\ internalTypes' = internalTypes \o added

\* C16: after construction the token "T" followed by m.name is in
\* internalTypes for every entry m of methods, and it was added only if it was
\* not there already: a T-prefixed name of the seed list or found by the
\* Options scan is not added a second time.
C16_MethodTypeTokensRegisteredOnce ==
  /\ [](ctor = "constructed" =>
          \A t \in MethodTypeTokens : Occurrences(internalTypes, t) = 1)
  /\ [][FillMethodsAddsOnlyAbsentTokens]_vars

\* TMapped was in the seed list, TOptions came from the scan, and only
\* TNumber was added for the three methods
C16_Witness ==
  /\ ctor = "constructed"
  /\ disk[1].text = "TOptions "
  /\ MethodNames = <<"Mapped", "Number", "Options">>
  /\ internalTypes = SeedInternalTypes \o <<"TOptions", "TNumber">>

\* the named method declarations of the builder classes, in discovery order
NamedMethodDeclarations ==
  flat([i \in DOMAIN builders |->
          SelectSeq(builders[i].members,
                    LAMBDA member : member.kind = "MethodDeclaration"
                                    /\ member.name # <<>>)])

\* the declarations named n, in discovery order
DeclarationsNamed(n) ==
  SelectSeq(NamedMethodDeclarations, LAMBDA decl : decl.name[1] = n)

\* the declarations lists of methods partition the named method declarations
DeclarationsPartitioned ==
  /\ \A i \in DOMAIN methods :
       /\ methods[i].declarations # <<>>
       /\ \A k \in DOMAIN methods[i].declarations :
            methods[i].declarations[k].name[1] = methods[i].name
  /\ \A n \in DeclaredMethodNames :
       /\ Cardinality({i \in DOMAIN methods : methods[i].name = n}) = 1
       /\ \A i \in DOMAIN methods :
            methods[i].name = n => methods[i].declarations = DeclarationsNamed(n)

\* C17: once the constructor has run #fillMethods, every Method has at least
\* one declaration, every declaration of a Method has the Method's name, every
\* named method declaration of the builder classes belongs to exactly one
\* Method, and a Method's declarations are in discovery order; this for every
\* method name, names of built-in object properties such as constructor or
\* toString included.
C17_DeclarationsPartitionedForEveryName ==
  ctor \in {"constructed", "threw"} => DeclarationsPartitioned

=============================================================================
